---- MODULE Spec2Model ----
(***************************************************************************)
(* A model of gofer, a Gopher (RFC 1436) server:                           *)
(*   - BoundedFuturesUnordered   src/src/bounded_futures_unordered.rs       *)
(*   - RequestStream             src/src/request_stream.rs                  *)
(*   - RequestDecoder / RequestReader   src/src/request.rs                  *)
(*   - ItemType                  src/src/types.rs                           *)
(*   - MenuItem, MenuItemEncoder, MenuItemDecoder                          *)
(*                               src/src/menu.rs, src/src/response.rs       *)
(*   - handle_request, the main loop and its tasks   src/src/main.rs        *)
(*   - Response::write           src/src/response.rs                        *)
(* Each component has its own variables and actions.  A run exercises one  *)
(* of them (`running`): the queue as its unit test drives it, the server's *)
(* RequestStream with the tasks of the main loop, the RequestReader of one *)
(* connection, one of the two menu codecs on a menu file of one or two     *)
(* lines, an ItemType conversion, handle_request on one request, or        *)
(* Response::write on one response; the others stay as constructed.        *)
(***************************************************************************)
EXTENDS Integers, Sequences, FiniteSets, TLC

VARIABLES
    running,      \* the component this run exercises
    \* BoundedFuturesUnordered<F> and the futures pushed into it
    pending,      \* field `pending`: the FuturesUnordered, [all, rq]
    max,          \* field `max`
    nextSeq,      \* admission sequence number of the next future pushed
    sent,         \* futures whose value is available (oneshot sent)
    completion,   \* the same futures, in the order their values were sent
    closed,       \* futures dropped by push, in the order they were dropped
    out,          \* values returned by poll_next, in order
    \* RequestStream and its clients
    listener,     \* connections waiting in the listener's accept queue
    rs_pending,   \* field `pending`: FuturesUnordered<ReqWritePair>
    nextConn,     \* id of the next connecting client
    complete,     \* connections whose read_request future is ready
    failed,       \* those of them whose read_request returned Err
    admitted,     \* connections next_request pushed into pending
    delivered,    \* (req_result, tx) pairs returned by next_request, in order
    tasks,        \* the task spawned for each returned pair, by connection
    writes,       \* the responses written to each connection's tx, in order
    \* RequestReader (FramedRead<R, RequestDecoder>) over one connection
    input,        \* every byte the peer sends before closing
    pos,          \* number of bytes of input read so far
    buf,          \* FramedRead's buffer
    max_length,   \* RequestDecoder.max_length
    next_index,   \* RequestDecoder.next_index
    finished,     \* RequestDecoder.finished
    eof,          \* FramedRead saw a read of 0 bytes
    result,       \* what read_request returned, or NoResult
    arg,          \* the buffer handed to the latest decode call
    ret,          \* what the latest decode call returned
    \* a menu line, its encoder and its decoder
    menu_item,    \* the MenuItem to encode, or None when the line is given
    wire,         \* the bytes of the line
    fed,          \* number of bytes of wire read so far
    mbuf,         \* the buffer handed to decode, and what decode left of it
    partial,      \* response::MenuItemDecoder.partial
    mi_next_index,\* response::MenuItemDecoder.next_index
    mret,         \* what the latest decode call returned
    line_out,     \* the bytes the decoded item encodes to, once encoded
    decoded,      \* the items the decode calls returned, in order
    filled,       \* the item after the handler's map step, or None
    \* an ItemType conversion
    it_in,        \* the byte or the ItemType given
    it_mid,       \* what the first conversion made of it
    it_out,       \* what the second conversion made of that
    \* one request on its way through handle_request and Response::write
    req,          \* what read_request returned, or None
    response,     \* the Response built, or None
    looked_up,    \* the calls of fs::lookup: path and what it returned
    sink,         \* the bytes the writer took
    write_ret     \* what Response::write returned

bfuVars == <<pending, max, nextSeq, sent, completion, closed, out>>
rsVars  == <<listener, rs_pending, nextConn, complete, failed, admitted, delivered,
             tasks, writes>>
rdVars  == <<input, pos, buf, max_length, next_index, finished, eof, result, arg, ret>>
codecVars == <<menu_item, wire, fed, mbuf, partial, mi_next_index, mret, line_out,
               decoded, filled>>
typeVars == <<it_in, it_mid, it_out>>
handlerVars == <<req, response, looked_up, sink, write_ret>>
vars    == <<running, pending, max, nextSeq, sent, completion, closed, out,
             listener, rs_pending, nextConn, complete, failed, admitted, delivered,
             tasks, writes,
             input, pos, buf, max_length, next_index, finished, eof, result, arg, ret,
             menu_item, wire, fed, mbuf, partial, mi_next_index, mret, line_out,
             decoded, filled,
             it_in, it_mid, it_out,
             req, response, looked_up, sink, write_ret>>

----------------------------------------------------------------------------
\* Bounds of the model.

\* largest capacity a BoundedFuturesUnordered is constructed with
MaxCap == 3
\* number of futures pushed into the BoundedFuturesUnordered
MaxPush == 4
\* number of clients that connect to the RequestStream
MaxConn == 3
\* the model's value of MAX_QUEUED_REQUESTS (50 in src/src/main.rs:26)
MAX_QUEUED_REQUESTS == 2
\* longest byte stream a peer sends
MaxInput == 4
\* longest field of a menu line
MaxField == 1
\* largest max_length a RequestDecoder is constructed with
MaxMaxLength == 2
\* longest selector of a request over '/', '.', 'a'
MaxSel == 5
\* most items of a menu
MaxItems == 2

----------------------------------------------------------------------------
\* Sequences.

Range(s) == {s[i] : i \in 1..Len(s)}

Min2(a, b) == IF a < b THEN a ELSE b

MinOf(S) == CHOOSE x \in S : \A y \in S : x <= y

\* a rev() that leaves the order as it is
Reverse_none(s) == s

Reverse(s) == [i \in 1..Len(s) |-> s[Len(s) + 1 - i]]

\* s without its element x (the elements of s are distinct)
Without(s, x) == SelectSeq(s, LAMBDA y : y # x)

\* all sequences over S of length at most n
SeqUpTo(S, n) == UNION {[1..k -> S] : k \in 0..n}

----------------------------------------------------------------------------
\* futures::stream::FuturesUnordered, as the two files use it.  `all` is the
\* list of all futures, head first; `rq` is the ready-to-run queue, oldest
\* wake-up first.

FU_new == [all |-> <<>>, rq |-> <<>>]

FU_len(fu) == Len(fu.all)

FU_is_empty(fu) == fu.all = <<>>

\* push links the future at the head of the list and queues it for a first poll
FU_push(fu, f) == [all |-> <<f>> \o fu.all, rq |-> Append(fu.rq, f)]

\* into_iter walks the list from its head
FU_into_iter(fu) == fu.all

\* A wake-up queues the future unless it is queued already.
FU_wake(fu, f) ==
    IF f \in Range(fu.rq) THEN fu ELSE [fu EXCEPT !.rq = Append(fu.rq, f)]

\* poll_next takes the queued futures one by one: each is unlinked and polled;
\* a future that is ready is returned, one that is not is linked again at the
\* head.  res is Ready(f), Pending or None.
Ready(f) == [kind |-> "Ready", id |-> f]
PollPending == [kind |-> "Pending", id |-> 0]
PollNone == [kind |-> "None", id |-> 0]

\* a poll that hands a ready future back only when it is the oldest one linked
RECURSIVE FU_poll_oldest_first(_, _, _, _)
FU_poll_oldest_first(fu, rdy, polled, len) ==
    IF fu.rq = <<>>
    THEN [fu |-> fu, res |-> IF FU_is_empty(fu) THEN PollNone ELSE PollPending]
    ELSE LET task == Head(fu.rq)
             unlinked == [all |-> Without(fu.all, task), rq |-> Tail(fu.rq)]
         IN  IF task \in rdy /\ \A g \in Range(fu.all) : task <= g
             THEN [fu |-> unlinked, res |-> Ready(task)]
             ELSE LET linked == [unlinked EXCEPT !.all = <<task>> \o unlinked.all]
                  IN  IF polled + 1 = len
                      THEN [fu |-> linked, res |-> PollPending]
                      ELSE FU_poll_oldest_first(linked, rdy, polled + 1, len)

RECURSIVE FU_poll_loop(_, _, _, _)
FU_poll_loop(fu, rdy, polled, len) ==
    IF fu.rq = <<>>
    THEN [fu |-> fu, res |-> IF FU_is_empty(fu) THEN PollNone ELSE PollPending]
    ELSE LET task == Head(fu.rq)
             unlinked == [all |-> Without(fu.all, task), rq |-> Tail(fu.rq)]
         IN  IF task \in rdy
             THEN [fu |-> unlinked, res |-> Ready(task)]
             ELSE LET linked == [unlinked EXCEPT !.all = <<task>> \o unlinked.all]
                  IN  IF polled + 1 = len
                      THEN [fu |-> linked, res |-> PollPending]
                      ELSE FU_poll_loop(linked, rdy, polled + 1, len)

FU_poll_next(fu, rdy) == FU_poll_loop(fu, rdy, 0, FU_len(fu))

----------------------------------------------------------------------------
\* BoundedFuturesUnordered

RECURSIVE PushAll(_, _)
PushAll(fu, fs) ==
    IF fs = <<>> THEN fu ELSE PushAll(FU_push(fu, Head(fs)), Tail(fs))

\* push without the eviction branch
push_unbounded(p, mx, item) ==
    [pending |-> FU_push(p, item), dropped |-> <<>>, asserted |-> TRUE]

\* push: [pending, dropped, asserted]; asserted is FALSE when the assert_eq!
\* after the rebuild fails
push(p, mx, item) ==
    IF FU_len(p) = mx
    THEN LET fs  == FU_into_iter(p)
             rev == Reverse(fs)
             kept == IF rev = <<>> THEN <<>> ELSE Tail(rev)
             rebuilt == PushAll(FU_new, kept)
         IN  [pending |-> FU_push(rebuilt, item),
              dropped |-> IF rev = <<>> THEN <<>> ELSE <<Head(rev)>>,
              asserted |-> FU_len(rebuilt) = mx - 1]
    ELSE [pending |-> FU_push(p, item), dropped |-> <<>>, asserted |-> TRUE]

len == FU_len(pending)

BFUInit ==
    /\ pending = FU_new
    /\ max \in 1..MaxCap
    /\ nextSeq = 1
    /\ sent = {}
    /\ completion = <<>>
    /\ closed = <<>>
    /\ out = <<>>

\* bfu.push(rx)
Push ==
    /\ running = "BoundedFuturesUnordered"
    /\ nextSeq <= MaxPush
    /\ LET r == push(pending, max, nextSeq)
       IN  /\ r.asserted
           /\ pending' = r.pending
           /\ closed' = closed \o r.dropped
    /\ nextSeq' = nextSeq + 1
    /\ UNCHANGED <<max, sent, completion, out>>
    /\ UNCHANGED <<running, typeVars, handlerVars, codecVars, rsVars, rdVars>>

\* tx.send(v): the future becomes ready and is woken
Send ==
    /\ running = "BoundedFuturesUnordered"
    /\ \E f \in Range(pending.all) \ sent :
          /\ sent' = sent \cup {f}
          /\ completion' = Append(completion, f)
          /\ pending' = FU_wake(pending, f)
    /\ UNCHANGED <<max, nextSeq, closed, out>>
    /\ UNCHANGED <<running, typeVars, handlerVars, codecVars, rsVars, rdVars>>

\* a pending future is woken without being ready (a partial read)
Wake ==
    /\ running = "BoundedFuturesUnordered"
    /\ \E f \in Range(pending.all) \ Range(pending.rq) :
          pending' = FU_wake(pending, f)
    /\ UNCHANGED <<max, nextSeq, sent, completion, closed, out>>
    /\ UNCHANGED <<running, typeVars, handlerVars, codecVars, rsVars, rdVars>>

\* one poll of bfu.next()
PollNext ==
    /\ running = "BoundedFuturesUnordered"
    /\ LET r == FU_poll_next(pending, sent)
       IN  /\ pending' = r.fu
           /\ out' = IF r.res.kind = "Ready" THEN Append(out, r.res.id) ELSE out
    /\ UNCHANGED <<max, nextSeq, sent, completion, closed>>
    /\ UNCHANGED <<running, typeVars, handlerVars, codecVars, rsVars, rdVars>>

----------------------------------------------------------------------------
\* RequestStream

RSInit ==
    /\ listener = <<>>
    /\ rs_pending = FU_new
    /\ nextConn = 1
    /\ complete = {}
    /\ failed = {}
    /\ admitted = {}
    /\ delivered = <<>>
    /\ tasks = [c \in 1..MaxConn |-> "none"]
    /\ writes = [c \in 1..MaxConn |-> <<>>]

\* a next_request that drops the pair of a request that failed to decode
pair_ok_only(c) ==
    IF c \in failed THEN <<>> ELSE <<[req_result |-> "Ok", tx |-> c]>>

\* read_request().map(move |req_result| (req_result, tx)), as Some(pair)
pair(c) ==
    <<[req_result |-> IF c \in failed THEN "Err" ELSE "Ok", tx |-> c]>>

\* a client connects
Connect ==
    /\ running = "RequestStream"
    /\ nextConn <= MaxConn
    /\ listener' = Append(listener, nextConn)
    /\ nextConn' = nextConn + 1
    /\ UNCHANGED <<rs_pending, complete, failed, admitted, delivered, tasks, writes>>
    /\ UNCHANGED <<running, typeVars, handlerVars, codecVars, bfuVars, rdVars>>

\* a client's request (or its failure) is there to be read, be the
\* connection admitted or still waiting to be accepted
ClientDone ==
    /\ running = "RequestStream"
    /\ \E c \in (Range(listener) \cup Range(rs_pending.all)) \ complete :
       \E ok \in BOOLEAN :
          /\ complete' = complete \cup {c}
          /\ failed' = IF ok THEN failed ELSE failed \cup {c}
          /\ rs_pending' = IF c \in Range(rs_pending.all)
                           THEN FU_wake(rs_pending, c) ELSE rs_pending
    /\ UNCHANGED <<listener, nextConn, admitted, delivered, tasks, writes>>
    /\ UNCHANGED <<running, typeVars, handlerVars, codecVars, bfuVars, rdVars>>

\* an admitted client sends part of a request line
ClientPartial ==
    /\ running = "RequestStream"
    /\ \E c \in Range(rs_pending.all) \ Range(rs_pending.rq) :
          rs_pending' = FU_wake(rs_pending, c)
    /\ UNCHANGED <<listener, nextConn, complete, failed, admitted, delivered,
                   tasks, writes>>
    /\ UNCHANGED <<running, typeVars, handlerVars, codecVars, bfuVars, rdVars>>

\* next_request, select branch 1: self.pending.next(), if !self.pending.is_empty();
\* the main loop spawns a task for the pair returned and calls next_request again
NextRequestPending ==
    /\ running = "RequestStream"
    /\ ~FU_is_empty(rs_pending)
    /\ LET r == FU_poll_next(rs_pending, complete)
       IN  /\ rs_pending' = r.fu
           /\ delivered' = IF r.res.kind = "Ready"
                           THEN delivered \o pair(r.res.id) ELSE delivered
           /\ tasks' = [c \in 1..MaxConn |->
                          IF \E i \in 1..Len(delivered') : delivered'[i].tx = c
                          THEN IF tasks[c] = "none" THEN "spawned" ELSE tasks[c]
                          ELSE tasks[c]]
    /\ UNCHANGED <<listener, nextConn, complete, failed, admitted, writes>>
    /\ UNCHANGED <<running, typeVars, handlerVars, codecVars, bfuVars, rdVars>>

\* next_request, select branch 2: self.listener.accept(),
\* if self.pending.len() < MAX_QUEUED_REQUESTS, Ok((conn, remote_addr))
NextRequestAccept ==
    /\ running = "RequestStream"
    /\ FU_len(rs_pending) < MAX_QUEUED_REQUESTS
    /\ listener # <<>>
    /\ rs_pending' = FU_push(rs_pending, Head(listener))
    /\ listener' = Tail(listener)
    /\ admitted' = admitted \cup {Head(listener)}
    /\ UNCHANGED <<nextConn, complete, failed, delivered, tasks, writes>>
    /\ UNCHANGED <<running, typeVars, handlerVars, codecVars, bfuVars, rdVars>>

\* next_request, select branch 2, Err(e): the connection attempt is lost
NextRequestAcceptErr ==
    /\ running = "RequestStream"
    /\ FU_len(rs_pending) < MAX_QUEUED_REQUESTS
    /\ listener # <<>>
    /\ listener' = Tail(listener)
    /\ UNCHANGED <<rs_pending, nextConn, complete, failed, admitted, delivered,
                   tasks, writes>>
    /\ UNCHANGED <<running, typeVars, handlerVars, codecVars, bfuVars, rdVars>>

----------------------------------------------------------------------------
\* RequestDecoder

CR  == 13
LF  == 10
TAB == 9
NUL == 0

\* the bytes a peer sends in the model: the four forbidden ones, 'a', and the
\* two bytes of U+00E9, each of which alone is not UTF-8
Bytes == {NUL, TAB, LF, CR, 97, 195, 169}

\* `invalid` without the TAB arm
invalid_no_tab(c) == c \in {CR, LF, NUL}

\* the closure `invalid`
invalid(c) == c \in {CR, LF, TAB, NUL}

\* the match on a window: "Ok", "Err" or "None"
window(first, second) ==
    IF first = CR /\ second = LF THEN "Ok"
    ELSE IF second = CR THEN (IF invalid(first) THEN "Err" ELSE "None")
    ELSE IF invalid(first) \/ invalid(second) THEN "Err"
    ELSE "None"

\* std::str::from_utf8 succeeds on s
RECURSIVE Utf8(_)
Utf8(s) ==
    IF s = <<>> THEN TRUE
    ELSE LET b == s[1]
             cont(i) == i <= Len(s) /\ s[i] \in 128..191
             rest(n) == Utf8(SubSeq(s, n + 1, Len(s)))
         IN  IF b <= 127 THEN rest(1)
             ELSE IF b \in 194..223 THEN cont(2) /\ rest(2)
             ELSE IF b = 224 THEN Len(s) >= 2 /\ s[2] \in 160..191 /\ cont(3) /\ rest(3)
             ELSE IF b \in (225..236) \cup {238, 239} THEN cont(2) /\ cont(3) /\ rest(3)
             ELSE IF b = 237 THEN Len(s) >= 2 /\ s[2] \in 128..159 /\ cont(3) /\ rest(3)
             ELSE IF b = 240
                  THEN Len(s) >= 2 /\ s[2] \in 144..191 /\ cont(3) /\ cont(4) /\ rest(4)
             ELSE IF b \in 241..243 THEN cont(2) /\ cont(3) /\ cont(4) /\ rest(4)
             ELSE IF b = 244
                  THEN Len(s) >= 2 /\ s[2] \in 128..143 /\ cont(3) /\ cont(4) /\ rest(4)
             ELSE FALSE

Ret(kind, selector) == [kind |-> kind, selector |-> selector]

\* read_to that leaves no room for the LF of the terminator
read_to_short(mlen, n) == Min2(mlen + 1, n)

\* let read_to = min(max_length + 2, buf.len())
read_to(mlen, n) == Min2(mlen + 2, n)

\* a length guard that allows for the terminator as well
too_long_late(b, mlen) == Len(b) > mlen + 2

\* the guard of the third match arm: buf.len() > self.max_length
too_long(b, mlen) == Len(b) > mlen

\* the first window that is not None: <<"Ok" or "Err", i>>, or <<"None", 0>>
offset(slice) ==
    LET hits == {i \in 0..(Len(slice) - 2) : window(slice[i + 1], slice[i + 2]) # "None"}
    IN  IF hits = {} THEN <<"None", 0>>
        ELSE LET i == MinOf(hits) IN <<window(slice[i + 1], slice[i + 2]), i>>

\* a decode that drains the buffer when it meets a forbidden byte
decode_draining(b, mlen, nidx, fin) ==
    IF fin THEN [ret |-> Ret("Panic", <<>>), buf |-> b, finished |-> fin]
    ELSE
    LET off == offset(SubSeq(b, nidx + 1, read_to(mlen, Len(b))))
    IN  IF off[1] = "Ok"
        THEN LET newline_index == off[2] + nidx
                 line == SubSeq(b, 1, newline_index)
                 left == SubSeq(b, newline_index + 3, Len(b))
             IN  IF Utf8(line)
                 THEN [ret |-> Ret("Request", line), buf |-> left, finished |-> TRUE]
                 ELSE [ret |-> Ret("Utf8", <<>>), buf |-> left, finished |-> fin]
        ELSE IF off[1] = "Err"
        THEN [ret |-> Ret("InvalidSelector", <<>>), buf |-> <<>>, finished |-> fin]
        ELSE IF too_long(b, mlen)
        THEN [ret |-> Ret("TooLong", <<>>), buf |-> b, finished |-> TRUE]
        ELSE [ret |-> Ret("None", <<>>), buf |-> b, finished |-> fin]

\* decode: [ret, buf, finished].  ret.kind is "Request", "None" (Ok(None)),
\* "Utf8", "TooLong", "InvalidSelector", or "Panic" when the assertion fails.
decode(b, mlen, nidx, fin) ==
    IF fin THEN [ret |-> Ret("Panic", <<>>), buf |-> b, finished |-> fin]
    ELSE
    LET off == offset(SubSeq(b, nidx + 1, read_to(mlen, Len(b))))
    IN  IF off[1] = "Ok"
        THEN LET newline_index == off[2] + nidx
                 line == SubSeq(b, 1, newline_index)
                 left == SubSeq(b, newline_index + 3, Len(b))
             IN  IF Utf8(line)
                 THEN [ret |-> Ret("Request", line), buf |-> left, finished |-> TRUE]
                 ELSE [ret |-> Ret("Utf8", <<>>), buf |-> left, finished |-> fin]
        ELSE IF off[1] = "Err"
        THEN [ret |-> Ret("InvalidSelector", <<>>), buf |-> b, finished |-> fin]
        ELSE IF too_long(b, mlen)
        THEN [ret |-> Ret("TooLong", <<>>), buf |-> b, finished |-> TRUE]
        ELSE [ret |-> Ret("None", <<>>), buf |-> b, finished |-> fin]

\* decode_eof that only forwards to decode
decode_eof_forward(b, mlen, nidx, fin) == decode(b, mlen, nidx, fin)

decode_eof(b, mlen, nidx, fin) ==
    LET d == decode(b, mlen, nidx, fin)
    IN  IF d.ret.kind = "None"
        THEN [d EXCEPT !.ret = Ret("InvalidSelector", <<>>)]
        ELSE d

----------------------------------------------------------------------------
\* RequestReader: read_request takes the first item of the FramedRead stream
\* and drops the reader.

NoResult == Ret("NoResult", <<>>)

\* a reader that goes on reading after an error
returned_request_only(r) == r.kind = "Request"

\* a reader that takes the next item of the stream after a Request
returned_on_error(r) == r.kind \notin {"NoResult", "Request"}

\* read_request has returned
returned(r) == r # NoResult

\* a frame or an error ends read_request; Ok(None) makes FramedRead read on
first_item(r) == IF r.kind = "None" THEN NoResult ELSE r

\* the stream ended without an item: unwrap_or(Err(InvalidSelector(..)))
unwrap_or(r) == IF r.kind = "None" THEN Ret("InvalidSelector", <<>>) ELSE r

RdInit ==
    /\ input \in SeqUpTo(Bytes, MaxInput)
    /\ max_length \in 0..MaxMaxLength
    /\ pos = 0
    /\ buf = <<>>
    /\ next_index = 0
    /\ finished = FALSE
    /\ eof = FALSE
    /\ result = NoResult
    /\ arg = <<>>
    /\ ret = NoResult

\* the socket yields n more bytes and FramedRead hands the buffer to decode
Read ==
    /\ running = "RequestReader"
    /\ ~returned(result)
    /\ ~eof
    /\ \E n \in 1..(Len(input) - pos) :
          LET b == buf \o SubSeq(input, pos + 1, pos + n)
              d == decode(b, max_length, next_index, finished)
          IN  /\ pos' = pos + n
              /\ arg' = b
              /\ ret' = d.ret
              /\ buf' = d.buf
              /\ finished' = d.finished
              /\ result' = first_item(d.ret)
    /\ UNCHANGED <<input, max_length, next_index, eof>>
    /\ UNCHANGED <<running, typeVars, handlerVars, codecVars, bfuVars, rsVars>>

\* the socket reports end of stream and FramedRead calls decode_eof
ReadEof ==
    /\ running = "RequestReader"
    /\ ~returned(result)
    /\ ~eof
    /\ pos = Len(input)
    /\ LET d == decode_eof(buf, max_length, next_index, finished)
       IN  /\ arg' = buf
           /\ ret' = d.ret
           /\ buf' = d.buf
           /\ finished' = d.finished
           /\ result' = unwrap_or(d.ret)
    /\ eof' = TRUE
    /\ UNCHANGED <<input, pos, max_length, next_index>>
    /\ UNCHANGED <<running, typeVars, handlerVars, codecVars, bfuVars, rsVars>>

----------------------------------------------------------------------------
\* ItemType (src/src/types.rs)

\* the variants without a payload and their type bytes
ItemTypes ==
    << <<"File", 48>>, <<"Directory", 49>>, <<"CSO", 50>>, <<"Error", 51>>,
       <<"BinHex", 52>>, <<"DosBinary", 53>>, <<"Uuencoded", 54>>,
       <<"IndexSearch", 55>>, <<"Telnet", 56>>, <<"Binary", 57>>,
       <<"RedundantServer", 43>>, <<"Tn3270", 84>>, <<"Gif", 103>>,
       <<"Image", 73>>, <<"Document", 100>>, <<"HTML", 104>>,
       <<"Info", 105>>, <<"Audio", 115>> >>

ItemType(v) == [variant |-> v]
Reserved(c) == [variant |-> "Reserved", c |-> c]
Other(c) == [variant |-> "Other", c |-> c]

\* a from_u8 whose range arm is missing
from_u8_no_reserved(c) ==
    IF \E k \in 1..Len(ItemTypes) : ItemTypes[k][2] = c
    THEN ItemType(ItemTypes[CHOOSE k \in 1..Len(ItemTypes) : ItemTypes[k][2] = c][1])
    ELSE Other(c)

from_u8(c) ==
    IF \E k \in 1..Len(ItemTypes) : ItemTypes[k][2] = c
    THEN ItemType(ItemTypes[CHOOSE k \in 1..Len(ItemTypes) : ItemTypes[k][2] = c][1])
    ELSE IF c \in 48..90 THEN Reserved(c) ELSE Other(c)

into_u8(t) ==
    IF t.variant \in {"Reserved", "Other"}
    THEN t.c
    ELSE ItemTypes[CHOOSE k \in 1..Len(ItemTypes) : ItemTypes[k][1] = t.variant][2]

\* a conversion of one value: a byte to its ItemType and back, or a named
\* ItemType to its byte and back
Unset == [unset |-> TRUE]

TypeIdle == it_in = Unset /\ it_mid = Unset /\ it_out = Unset

TypeInit ==
    /\ it_in \in {[byte |-> b] : b \in 0..255}
                \cup {[typ |-> ItemType(ItemTypes[k][1])] : k \in 1..Len(ItemTypes)}
    /\ it_mid = Unset
    /\ it_out = Unset

\* ItemType::from_u8 on the byte given, or on the byte into_u8 returned
FromU8 ==
    /\ running = "ItemType"
    /\ \/ /\ DOMAIN it_in = {"byte"} /\ it_mid = Unset
          /\ it_mid' = [typ |-> from_u8(it_in.byte)]
          /\ UNCHANGED <<it_in, it_out>>
       \/ /\ DOMAIN it_mid = {"byte"} /\ it_out = Unset
          /\ it_out' = [typ |-> from_u8(it_mid.byte)]
          /\ UNCHANGED <<it_in, it_mid>>
    /\ UNCHANGED <<running, handlerVars, codecVars, bfuVars, rsVars, rdVars>>

\* ItemType::into_u8 on the ItemType given, or on the one from_u8 returned
IntoU8 ==
    /\ running = "ItemType"
    /\ \/ /\ DOMAIN it_in = {"typ"} /\ it_mid = Unset
          /\ it_mid' = [byte |-> into_u8(it_in.typ)]
          /\ UNCHANGED <<it_in, it_out>>
       \/ /\ DOMAIN it_mid = {"typ"} /\ it_out = Unset
          /\ it_out' = [byte |-> into_u8(it_mid.typ)]
          /\ UNCHANGED <<it_in, it_mid>>
    /\ UNCHANGED <<running, handlerVars, codecVars, bfuVars, rsVars, rdVars>>

----------------------------------------------------------------------------
\* MenuItem and MenuItemEncoder (src/src/menu.rs, src/src/response.rs)

None == [some |-> FALSE]
Some(v) == [some |-> TRUE, v |-> v]

MenuItem(typ, text, selector, host, port) ==
    [typ |-> typ, text |-> text, selector |-> selector, host |-> host, port |-> port]

\* MenuItem::info
info(text) == MenuItem(ItemType("Info"), text, <<>>, None, None)

\* MenuItem::new
new(typ, text, selector, host, port) ==
    MenuItem(typ, text, selector, Some(host), Some(port))

\* Config: the hostname and port of this server
config == [hostname |-> <<104>>, port |-> 17]

\* u16::to_string
RECURSIVE to_string(_)
to_string(n) ==
    IF n < 10 THEN <<48 + n>> ELSE to_string(n \div 10) \o <<48 + (n % 10)>>

\* a map step that sets the host whatever the line gave
fill_overwrite(item) ==
    [item EXCEPT !.host = Some(config.hostname),
                 !.port = IF item.port.some THEN item.port
                          ELSE Some(to_string(config.port))]

\* the closure of .map(...) in handle_request: host and port of an item that
\* is neither Info nor Error are filled in
fill(item) ==
    IF item.typ # ItemType("Info") /\ item.typ # ItemType("Error")
    THEN IF ~item.port.some
         THEN IF ~item.host.some
              THEN [item EXCEPT !.host = Some(config.hostname),
                                !.port = Some(to_string(config.port))]
              ELSE [item EXCEPT !.port = Some(<<55, 48>>)]
         ELSE IF ~item.host.some
              THEN [item EXCEPT !.host = Some(config.hostname)]
              ELSE item
    ELSE item

\* b"error.host" and b"1"
error_host == <<101, 114, 114, 111, 114, 46, 104, 111, 115, 116>>
port_1 == <<49>>

unwrap_or_bytes(opt, default) == IF opt.some THEN opt.v ELSE default

\* an encoder that leaves an absent host or port out
menu_encode_bare(item, dst) ==
    dst \o <<into_u8(item.typ)>> \o item.text \o <<TAB>> \o item.selector
        \o (IF item.host.some THEN <<TAB>> \o item.host.v ELSE <<>>)
        \o (IF item.port.some THEN <<TAB>> \o item.port.v ELSE <<>>)
        \o <<CR, LF>>

\* menu::MenuItemEncoder::encode
menu_encode(item, dst) ==
    LET d1 == dst \o <<into_u8(item.typ)>>
        d2 == d1 \o item.text
        d3 == d2 \o <<TAB>>
        d4 == d3 \o item.selector
        d5 == d4 \o <<TAB>>
        d6 == d5 \o unwrap_or_bytes(item.host, error_host)
        d7 == d6 \o <<TAB>>
        d8 == d7 \o unwrap_or_bytes(item.port, port_1)
    IN  d8 \o <<CR, LF>>

\* response::MenuItemEncoder::encode
response_encode(item, dst) ==
    LET d1 == dst \o <<into_u8(item.typ)>>
        d2 == d1 \o item.text
        d3 == d2 \o <<TAB>>
        d4 == d3 \o item.selector
        d5 == d4 \o <<TAB>>
        d6 == d5 \o unwrap_or_bytes(item.host, error_host)
        d7 == d6 \o <<TAB>>
        d8 == d7 \o unwrap_or_bytes(item.port, port_1)
    IN  d8 \o <<CR, LF>>

----------------------------------------------------------------------------
\* menu::MenuItemDecoder (src/src/menu.rs)

\* what a decode call returns: an item, Ok(None), an error, or a panic
NoItem == [typ |-> Other(NUL)]
Item(item) == [kind |-> "Item", item |-> item]
NotYet == [kind |-> "None", item |-> NoItem]
Failure(kind) == [kind |-> kind, item |-> NoItem]

\* the first place of one of the bytes cs in s, 0 when there is none
position(s, cs) ==
    IF \E i \in 1..Len(s) : s[i] \in cs
    THEN MinOf({i \in 1..Len(s) : s[i] \in cs})
    ELSE 0

\* next_field: [field, line], line being what is left of the line
menu_next_field(line) ==
    LET idx == position(line, {TAB})
    IN  IF idx # 0
        THEN [field |-> SubSeq(line, 1, idx - 1),
              line |-> SubSeq(line, idx + 1, Len(line))]
        ELSE [field |-> line, line |-> <<>>]

\* the fields of the line after the type byte: [ret, fields, line]
RECURSIVE menu_fields(_, _)
menu_fields(line, fields) ==
    LET f == menu_next_field(line)
    IN  IF ~Utf8(f.field)
        THEN [ok |-> FALSE, fields |-> fields, line |-> f.line]
        ELSE IF f.line = <<>> \/ Len(fields) = 3
             THEN [ok |-> TRUE, fields |-> Append(fields, f.field), line |-> f.line]
             ELSE menu_fields(f.line, Append(fields, f.field))

\* decode: [ret, buf]
menu_decode(b) ==
    LET idx == position(b, {LF})
    IN  IF idx = 0
        THEN [ret |-> NotYet, buf |-> b]
        ELSE LET rest == SubSeq(b, idx + 1, Len(b))
                 line == IF idx >= 2 /\ b[idx - 1] = CR
                         THEN SubSeq(b, 1, idx - 2)
                         ELSE SubSeq(b, 1, idx - 1)
             IN  IF line = <<>>
                 THEN [ret |-> Item(MenuItem(ItemType("Info"), <<>>, <<>>, None, None)),
                       buf |-> rest]
                 ELSE IF line[1] \in 0..32
                 THEN [ret |-> Failure("Message"), buf |-> rest]
                 ELSE LET typ == from_u8(line[1])
                          p == menu_fields(Tail(line), <<>>)
                          n == Len(p.fields)
                      IN  IF ~p.ok
                          THEN [ret |-> Failure("Utf8"), buf |-> rest]
                          ELSE IF p.line # <<>>
                          THEN [ret |-> Failure("Message"), buf |-> rest]
                          ELSE [ret |-> Item(MenuItem(typ, p.fields[1],
                                    IF n >= 2 THEN p.fields[2] ELSE <<>>,
                                    IF n >= 3 THEN Some(p.fields[3]) ELSE None,
                                    IF n >= 4 THEN Some(p.fields[4]) ELSE None)),
                                buf |-> rest]

----------------------------------------------------------------------------
\* response::MenuItemDecoder (src/src/response.rs): partial is None or
\* Some([typ, fields]), fields being the strings parsed so far, text first.

\* MenuItemDecoder::new
response_new == [partial |-> None, next_index |-> 0]

\* next_string: a string ended by TAB, CR or LF, from next_index on
response_next_string(nidx, b) ==
    LET p == position(SubSeq(b, nidx + 1, Len(b)), {TAB, CR, LF})
        text_bytes == SubSeq(b, nidx + 1, nidx + p - 1)
    IN  IF p = 0
        THEN [kind |-> "None", text |-> <<>>, next_index |-> nidx]
        ELSE IF ~Utf8(text_bytes)
        THEN [kind |-> "Utf8", text |-> <<>>, next_index |-> nidx]
        ELSE [kind |-> "Some", text |-> text_bytes, next_index |-> nidx + p]

\* &buf[next_index - 1 .. next_index + 1] == b"\r\n"
at_crlf(b, nidx) == b[nidx] = CR /\ b[nidx + 1] = LF

\* the arms of the match that test for the end of the line before they read
\* the next string: after the text and after the selector
line_ends(b, part, nidx) == Len(part.fields) \in {1, 2} /\ at_crlf(b, nidx)

\* decode: [ret, buf, partial, next_index]
RECURSIVE response_decode(_, _, _)
response_decode(b, partial_, nidx) ==
    IF nidx >= Len(b)
    THEN [ret |-> NotYet, buf |-> b, partial |-> partial_, next_index |-> nidx]
    ELSE IF ~partial_.some
    THEN \* None: partial.take() leaves None behind
         IF nidx # 0
         THEN [ret |-> Failure("Panic"), buf |-> b, partial |-> None, next_index |-> nidx]
         ELSE IF Len(b) >= 2 /\ b[1] = CR /\ b[2] = LF
         THEN [ret |-> Item(MenuItem(ItemType("Info"), <<>>, <<>>, None, None)),
               buf |-> SubSeq(b, 3, Len(b)), partial |-> None, next_index |-> nidx]
         ELSE IF b[1] \in {CR, LF, TAB}
         THEN [ret |-> Failure("Message"), buf |-> b, partial |-> None, next_index |-> nidx]
         ELSE response_decode(b, Some([typ |-> from_u8(b[1]), fields |-> <<>>]), 1)
    ELSE LET part == partial_.v
             f == part.fields
         IN  IF Len(f) = 4
             THEN IF at_crlf(b, nidx)
                  THEN [ret |-> Item(MenuItem(part.typ, f[1], f[2], Some(f[3]), Some(f[4]))),
                        buf |-> SubSeq(b, nidx + 2, Len(b)),
                        partial |-> None, next_index |-> 0]
                  ELSE [ret |-> Failure("Message"), buf |-> b,
                        partial |-> None, next_index |-> nidx]
             ELSE IF line_ends(b, part, nidx)
             THEN [ret |-> Item(MenuItem(part.typ, f[1],
                                IF Len(f) >= 2 THEN f[2] ELSE <<>>,
                                None, None)),
                   buf |-> SubSeq(b, nidx + 2, Len(b)),
                   partial |-> None, next_index |-> nidx]
             ELSE LET s == response_next_string(nidx, b)
                  IN  IF s.kind = "Some"
                      THEN response_decode(b,
                               Some([part EXCEPT !.fields = Append(f, s.text)]),
                               s.next_index)
                      ELSE [ret |-> IF s.kind = "None" THEN NotYet ELSE Failure("Utf8"),
                            buf |-> b, partial |-> None, next_index |-> nidx]

----------------------------------------------------------------------------
\* A menu line on its way through a codec: an item is encoded, or a line is
\* taken as it is, and a decoder receives the bytes in fragments (FramedRead
\* reads some bytes, then calls decode; after a frame it calls decode again
\* before it reads).  Decoding stops at the first error.

NoCall == Failure("NoCall")

RECURSIVE join(_)
join(fs) ==
    IF Len(fs) = 1 THEN fs[1] ELSE fs[1] \o <<TAB>> \o join(Tail(fs))

\* the field values of the lines and items of a run
Fields == SeqUpTo({97}, MaxField)
\* the type bytes of the lines: i, 1, A, z, and bytes that are no type
TypeBytes == {105, 49, 65, 122, NUL, TAB, LF, CR, 32}
\* one to four fields after the type byte, or a fifth one, and the empty line
Lines ==
    {<<CR, LF>>} \cup
    {<<t>> \o join(fs) \o <<CR, LF>> :
        t \in TypeBytes,
        fs \in UNION {[1..n -> Fields] : n \in 1..5}}
\* two lines in one file: the empty line and the lines of one to four fields
MenuLines ==
    {<<CR, LF>>} \cup
    {<<49>> \o join([k \in 1..n |-> <<97>>]) \o <<CR, LF>> : n \in 1..4}
Menus == {a \o b : a, b \in MenuLines}
Items ==
    {MenuItem(from_u8(t), text, selector, host, port) :
        t \in {105, 51, 49, 65, 122}, text \in Fields, selector \in Fields,
        host \in {None} \cup {Some(h) : h \in Fields},
        port \in {None} \cup {Some(p) : p \in Fields}}

\* nothing read, MenuItemDecoder::new()
CodecNew ==
    /\ fed = 0
    /\ mbuf = <<>>
    /\ partial = response_new.partial
    /\ mi_next_index = response_new.next_index
    /\ mret = NoCall
    /\ line_out = <<>>
    /\ decoded = <<>>
    /\ filled = None

CodecInit ==
    /\ \/ menu_item = None /\ wire \in Lines \cup Menus
       \/ menu_item \in {Some(i) : i \in Items} /\ wire = <<>>
    /\ CodecNew

\* the codec of a run that exercises another component
CodecIdle ==
    /\ menu_item = None
    /\ wire = <<>>
    /\ CodecNew

stopped(r) == r.kind \in {"Message", "Utf8", "Panic"}

\* the fewest bytes the next read brings: none when a frame was just returned
least(r) == IF r.kind = "Item" THEN 0 ELSE 1

\* menu::MenuItemEncoder::encode into an empty buffer
MenuEncode ==
    /\ running = "menu::MenuItemDecoder"
    /\ menu_item.some
    /\ wire = <<>>
    /\ wire' = menu_encode(menu_item.v, <<>>)
    /\ UNCHANGED <<menu_item, fed, mbuf, partial, mi_next_index, mret, line_out,
                   decoded, filled>>
    /\ UNCHANGED <<running, typeVars, handlerVars, bfuVars, rsVars, rdVars>>

\* response::MenuItemEncoder::encode into an empty buffer
ResponseEncode ==
    /\ running = "response::MenuItemDecoder"
    /\ menu_item.some
    /\ wire = <<>>
    /\ wire' = response_encode(menu_item.v, <<>>)
    /\ UNCHANGED <<menu_item, fed, mbuf, partial, mi_next_index, mret, line_out,
                   decoded, filled>>
    /\ UNCHANGED <<running, typeVars, handlerVars, bfuVars, rsVars, rdVars>>

\* n more bytes arrive and menu::MenuItemDecoder::decode is called
MenuDecode ==
    /\ running = "menu::MenuItemDecoder"
    /\ ~stopped(mret)
    /\ \E n \in least(mret)..(Len(wire) - fed) :
          LET d == menu_decode(mbuf \o SubSeq(wire, fed + 1, fed + n))
          IN  /\ fed' = fed + n
              /\ mbuf' = d.buf
              /\ mret' = d.ret
              /\ decoded' = IF d.ret.kind = "Item"
                            THEN Append(decoded, d.ret.item) ELSE decoded
    /\ line_out' = <<>>
    /\ filled' = None
    /\ UNCHANGED <<menu_item, wire, partial, mi_next_index>>
    /\ UNCHANGED <<running, typeVars, handlerVars, bfuVars, rsVars, rdVars>>

\* n more bytes arrive and response::MenuItemDecoder::decode is called
ResponseDecode ==
    /\ running = "response::MenuItemDecoder"
    /\ ~stopped(mret)
    /\ \E n \in least(mret)..(Len(wire) - fed) :
          LET d == response_decode(mbuf \o SubSeq(wire, fed + 1, fed + n),
                                   partial, mi_next_index)
          IN  /\ fed' = fed + n
              /\ mbuf' = d.buf
              /\ partial' = d.partial
              /\ mi_next_index' = d.next_index
              /\ mret' = d.ret
              /\ decoded' = IF d.ret.kind = "Item"
                            THEN Append(decoded, d.ret.item) ELSE decoded
    /\ line_out' = <<>>
    /\ filled' = None
    /\ UNCHANGED <<menu_item, wire>>
    /\ UNCHANGED <<running, typeVars, handlerVars, bfuVars, rsVars, rdVars>>

\* the item just decoded is encoded again
MenuReencode ==
    /\ running = "menu::MenuItemDecoder"
    /\ mret.kind = "Item"
    /\ line_out = <<>>
    /\ line_out' = menu_encode(mret.item, <<>>)
    /\ UNCHANGED <<menu_item, wire, fed, mbuf, partial, mi_next_index, mret,
                   decoded, filled>>
    /\ UNCHANGED <<running, typeVars, handlerVars, bfuVars, rsVars, rdVars>>

ResponseReencode ==
    /\ running = "response::MenuItemDecoder"
    /\ mret.kind = "Item"
    /\ line_out = <<>>
    /\ line_out' = response_encode(mret.item, <<>>)
    /\ UNCHANGED <<menu_item, wire, fed, mbuf, partial, mi_next_index, mret,
                   decoded, filled>>
    /\ UNCHANGED <<running, typeVars, handlerVars, bfuVars, rsVars, rdVars>>

\* the closure of the handler's .map(...) on an item of the menu file
Fill ==
    /\ running = "menu::MenuItemDecoder"
    /\ filled = None
    /\ \/ mret.kind = "Item" /\ filled' = Some(fill(mret.item))
       \/ menu_item.some /\ wire = <<>> /\ filled' = Some(fill(menu_item.v))
    /\ UNCHANGED <<menu_item, wire, fed, mbuf, partial, mi_next_index, mret,
                   line_out, decoded>>
    /\ UNCHANGED <<running, typeVars, handlerVars, bfuVars, rsVars, rdVars>>

----------------------------------------------------------------------------
\* handle_request and Response::write (src/src/main.rs, src/src/response.rs).
\* Strings are byte sequences; a string literal of the source is written out
\* in bytes with the literal in a comment.

starts_with(s, p) == Len(s) >= Len(p) /\ SubSeq(s, 1, Len(p)) = p
ends_with(s, p) == Len(s) >= Len(p) /\ SubSeq(s, Len(s) - Len(p) + 1, Len(s)) = p
\* a contains that looks at the start of the string only
contains_at_start(s, p) == Len(s) >= Len(p) /\ SubSeq(s, 1, Len(p)) = p

contains(s, p) == \E i \in 0..(Len(s) - Len(p)) : SubSeq(s, i + 1, i + Len(p)) = p

\* the two pages, each shortened to its first line, the URL and its last line
html_redirect(url) ==
    \* "<!doctype html>", "</html>"
    <<60, 33, 100, 111, 99, 116, 121, 112, 101, 32, 104, 116, 109, 108, 62>> \o url \o <<60, 47, 104, 116, 109, 108, 62>>
http_response(url) ==
    \* "HTTP/1.0 400 Bad Request", "</html>"
    <<72, 84, 84, 80, 47, 49, 46, 48, 32, 52, 48, 48, 32, 66, 97, 100, 32, 82, 101, 113, 117, 101, 115, 116>> \o url \o <<60, 47, 104, 116, 109, 108, 62>>

\* an io::Error, by the text it prints
\* "EIO"
IoErrors == {[detail |-> <<69, 73, 79>>]}

\* {e:?} of a RequestError (derive(Debug))
debug(e) ==
    \* "Io(", ")"
    IF e.kind = "Io" THEN <<73, 111, 40>> \o e.io.detail \o <<41>>
    \* "Utf8"
    ELSE IF e.kind = "Utf8" THEN <<85, 116, 102, 56>>
    \* "TooLong"
    ELSE IF e.kind = "TooLong" THEN <<84, 111, 111, 76, 111, 110, 103>>
    \* "InvalidSelector(", ")"
    ELSE <<73, 110, 118, 97, 108, 105, 100, 83, 101, 108, 101, 99, 116, 111, 114, 40>> \o e.msg \o <<41>>

\* impl From<io::Error> for Response
\* "I/O error"
from_io_error(e) == [variant |-> "Error", msg |-> <<73, 47, 79, 32, 101, 114, 114, 111, 114>>]

Panicked == [variant |-> "Panic"]

\* PathBuf::join: a relative path is appended, an absolute one replaces
path_join(root, rel) ==
    IF rel # <<>> /\ rel[1] = 47
    THEN [under_root |-> FALSE, rel |-> rel]
    ELSE [root EXCEPT !.rel = rel]

\* generate_menu: the header and one item for each directory entry
generate_menu(selector, dir) ==
    IF dir.read_dir = "Ok"
    THEN [variant |-> "Menu",
          \* "[", "]"
          items |-> << info(<<91>> \o config.hostname \o selector \o <<93>>),
                       info(<<>>) >>
                    \o [k \in 1..Len(dir.entries) |->
                          new(ItemType(IF dir.entries[k].is_dir
                                       THEN "Directory" ELSE "File"),
                              dir.entries[k].name,
                              \* "/"
                              selector \o <<47>> \o dir.entries[k].name,
                              config.hostname, to_string(config.port))]]
    ELSE from_io_error(dir.e)

\* handle_request: [response, lookups]; lookups holds the calls of fs::lookup,
\* each with its path and with what it returned: l, and what fs::read_dir
\* returned after it
handle_request(selector, l) ==
    LET document_root == [under_root |-> TRUE, rel |-> <<>>]
        early(r) == [response |-> r, lookups |-> <<>>]
        found(path) ==
            [response |->
                IF l.kind = "Menu"
                THEN [variant |-> "Menu",
                      items |-> [k \in 1..Len(l.items) |-> fill(l.items[k])]]
                ELSE IF l.kind = "Directory" THEN generate_menu(selector, l)
                ELSE IF l.kind = "File" THEN [variant |-> "File", file |-> l.file]
                ELSE IF l.kind = "NotFound"
                \* "not found"
                THEN [variant |-> "Error", msg |-> <<110, 111, 116, 32, 102, 111, 117, 110, 100>>]
                ELSE from_io_error(l.e),
             lookups |-> <<[path |-> path, ret |-> l]>>]
    IN  IF selector = <<>>
        THEN found(document_root)
        \* "URL:"
        ELSE IF starts_with(selector, <<85, 82, 76, 58>>)
        THEN early([variant |-> "Raw",
                    bytes |-> html_redirect(SubSeq(selector, 5, Len(selector)))])
        \* "GET "
        ELSE IF /\ starts_with(selector, <<71, 69, 84, 32>>)
                \* " HTTP/1.1"
                /\ \/ ends_with(selector, <<32, 72, 84, 84, 80, 47, 49, 46, 49>>)
                   \* " HTTP/1.0"
                   \/ ends_with(selector, <<32, 72, 84, 84, 80, 47, 49, 46, 48>>)
        THEN IF 4 > Len(selector) - 9
             THEN early(Panicked)
             ELSE early([variant |-> "Raw",
                         bytes |-> http_response(
                             \* "gopher://", ":"
                             <<103, 111, 112, 104, 101, 114, 58, 47, 47>> \o config.hostname \o <<58>>
                             \* "/1"
                             \o to_string(config.port) \o <<47, 49>>
                             \o SubSeq(selector, 5, Len(selector) - 9))])
        \* "/"
        ELSE IF starts_with(selector, <<47>>)
        \* "/.."
        THEN IF \/ selector = <<47, 46, 46>>
                \* "/../"
                \/ contains(selector, <<47, 46, 46, 47>>)
                \* "//"
                \/ contains(selector, <<47, 47>>)
             \* "directory traversal denied"
             THEN early([variant |-> "Error", msg |-> <<100, 105, 114, 101, 99, 116, 111, 114, 121, 32, 116, 114, 97, 118, 101, 114, 115, 97, 108, 32, 100, 101, 110, 105, 101, 100>>])
             ELSE found(path_join(document_root, Tail(selector)))
        \* "not found"
        ELSE early([variant |-> "Error", msg |-> <<110, 111, 116, 32, 102, 111, 117, 110, 100>>])

\* FramedWrite::new(&mut w, MenuItemEncoder).send_all(items)
RECURSIVE send_all(_, _)
send_all(items, dst) ==
    IF items = <<>> THEN dst
    ELSE send_all(Tail(items), response_encode(Head(items), dst))

\* a Response::write that writes the terminator after every item
write_each(r) ==
    IF r.variant = "Menu"
    THEN LET RECURSIVE each(_)
             each(items) ==
                 IF items = <<>> THEN <<>>
                 ELSE response_encode(Head(items), <<>>) \o <<46, CR, LF>>
                          \o each(Tail(items))
         IN  each(r.items)
    ELSE <<>>

\* the Raw arm of Response::write: the bytes as they are
write_raw(r) == r.bytes

\* a Response::write that ends an error line after the message
write_bare_error(r) ==
    IF r.variant = "Error"
    THEN <<into_u8(ItemType("Error"))>> \o r.msg \o <<CR, LF, 46, CR, LF>>
    ELSE <<>>

\* Response::write: the bytes it hands to the writer when no write fails
write(r) ==
    IF r.variant = "Menu"
    \* ".\r\n"
    THEN send_all(r.items, <<>>) \o <<46, 13, 10>>
    ELSE IF r.variant = "File" THEN r.file
    ELSE IF r.variant = "Error"
    THEN <<into_u8(ItemType("Error"))>> \o r.msg
             \* "\terror\terror.host\t1\r\n.\r\n"
             \o <<9, 101, 114, 114, 111, 114, 9, 101, 114, 114, 111, 114, 46, 104, 111, 115, 116, 9, 49, 13, 10, 46, 13, 10>>
    ELSE write_raw(r)

\* the selectors of the requests: strings over '/', '.', 'a', and one of each
\* of the forms that are not paths
Selectors ==
    SeqUpTo({47, 46, 97}, MaxSel)
        \* "URL:a", "GET /a HTTP/1.1", "GET / HTTP/1.0"
        \cup {<<85, 82, 76, 58, 97>>, <<71, 69, 84, 32, 47, 97, 32, 72, 84, 84, 80, 47, 49, 46, 49>>, <<71, 69, 84, 32, 47, 32, 72, 84, 84, 80, 47, 49, 46, 48>>,
              \* "GET HTTP/1.1", "a/.."
              <<71, 69, 84, 32, 72, 84, 84, 80, 47, 49, 46, 49>>, <<97, 47, 46, 46>>}

\* what read_request returned
Requests ==
    {[ok |-> TRUE, selector |-> s] : s \in Selectors}
        \cup {[ok |-> FALSE, err |-> [kind |-> "Io", io |-> e]] : e \in IoErrors}
        \cup {[ok |-> FALSE, err |-> [kind |-> k]] : k \in {"Utf8", "TooLong"}}
        \cup {[ok |-> FALSE, err |-> [kind |-> "InvalidSelector", msg |-> <<97>>]]}

\* the items of a menu file or of a response
MenuFiles ==
    SeqUpTo({info(<<97>>),
             MenuItem(ItemType("Directory"), <<97>>, <<47, 97>>, None, None)},
            MaxItems)

\* what fs::lookup and fs::read_dir return
Lookups ==
    {[kind |-> "Menu", items |-> m] : m \in MenuFiles}
        \cup {[kind |-> "Directory", read_dir |-> "Ok", entries |-> es] :
                es \in {<<>>, <<[name |-> <<97>>, is_dir |-> TRUE]>>,
                        <<[name |-> <<97>>, is_dir |-> FALSE]>>}}
        \cup {[kind |-> "Directory", read_dir |-> "Err", e |-> e] : e \in IoErrors}
        \cup {[kind |-> "File", file |-> <<102>>], [kind |-> "NotFound"]}
        \cup {[kind |-> "Err", e |-> e] : e \in IoErrors}

\* the responses given to Response::write on its own
Responses ==
    {[variant |-> "Menu", items |-> m] : m \in MenuFiles}
        \cup {[variant |-> "File", file |-> f] : f \in {<<>>, <<102>>}}
        \* "not found"
        \cup {[variant |-> "Error", msg |-> m] : m \in {<<>>, <<97>>, <<110, 111, 116, 32, 102, 111, 117, 110, 100>>}}
        \cup {[variant |-> "Raw", bytes |-> <<60, 62>>]}

HandlerIdle ==
    /\ req = None
    /\ response = None
    /\ looked_up = <<>>
    /\ sink = <<>>
    /\ write_ret = "NoCall"

\* a request was returned by next_request
HandlerInit ==
    /\ req \in {Some(r) : r \in Requests}
    /\ response = None
    /\ looked_up = <<>>
    /\ sink = <<>>
    /\ write_ret = "NoCall"

\* a response is about to be written
WriterInit ==
    /\ req = None
    /\ response \in {Some(r) : r \in Responses}
    /\ looked_up = <<>>
    /\ sink = <<>>
    /\ write_ret = "NoCall"

\* the body of the spawned task up to the response: handle_request for a
\* request, an Error response for a RequestError
HandleRequest ==
    /\ running = "handle_request"
    /\ response = None
    /\ IF req.v.ok
       THEN \E l \in Lookups :
               LET h == handle_request(req.v.selector, l)
               IN  /\ response' = Some(h.response)
                   /\ looked_up' = h.lookups
       ELSE /\ response' = Some([variant |-> "Error",
                                 \* "Bad request: "
                                 msg |-> <<66, 97, 100, 32, 114, 101, 113, 117, 101, 115, 116, 58, 32>> \o debug(req.v.err)])
            /\ looked_up' = <<>>
    /\ UNCHANGED <<req, sink, write_ret>>
    /\ UNCHANGED <<running, typeVars, codecVars, bfuVars, rsVars, rdVars>>

\* response.write(tx): the writer takes the first k bytes; it fails when it
\* takes fewer than all of them (the peer of a request being handled takes
\* them all)
Write ==
    /\ running \in {"handle_request", "Response::write"}
    /\ response # None
    /\ response.v # Panicked
    /\ write_ret = "NoCall"
    /\ LET bytes == write(response.v)
       IN  \E k \in 0..Len(bytes) :
              /\ running = "handle_request" => k = Len(bytes)
              /\ sink' = SubSeq(bytes, 1, k)
              /\ write_ret' = IF k = Len(bytes) THEN "Ok" ELSE "Err"
    /\ UNCHANGED <<req, response, looked_up>>
    /\ UNCHANGED <<running, typeVars, codecVars, bfuVars, rsVars, rdVars>>

\* the selectors of the requests the server's tasks handle: "" and
\* "GET HTTP/1.1"
TaskSelectors == {<<>>, <<71, 69, 84, 32, 72, 84, 84, 80, 47, 49, 46, 49>>}

\* a spawned task runs to its end: it builds the response, handle_request's
\* for a request and an Error for a RequestError, and writes it to tx; a
\* panic in handle_request ends the task before it writes
TaskRun ==
    /\ running = "RequestStream"
    /\ \E i \in 1..Len(delivered) :
          LET c == delivered[i].tx
          IN  /\ tasks[c] = "spawned"
              /\ \E s \in TaskSelectors :
                    LET r == IF delivered[i].req_result = "Ok"
                             THEN handle_request(s, [kind |-> "NotFound"]).response
                             ELSE [variant |-> "Error"]
                    IN  IF r = Panicked
                        THEN /\ tasks' = [tasks EXCEPT ![c] = "aborted"]
                             /\ writes' = writes
                        ELSE /\ tasks' = [tasks EXCEPT ![c] = "done"]
                             /\ writes' = [writes EXCEPT ![c] =
                                             Append(@, [response |-> r.variant,
                                                        of |-> delivered[i].req_result])]
    /\ UNCHANGED <<listener, rs_pending, nextConn, complete, failed, admitted,
                   delivered>>
    /\ UNCHANGED <<running, typeVars, handlerVars, codecVars, bfuVars, rdVars>>

\* a spawned task stops for good in an await: a lookup or a write that never
\* completes
TaskStall ==
    /\ running = "RequestStream"
    /\ \E c \in 1..MaxConn :
          /\ tasks[c] = "spawned"
          /\ tasks' = [tasks EXCEPT ![c] = "stalled"]
    /\ UNCHANGED <<listener, rs_pending, nextConn, complete, failed, admitted,
                   delivered, writes>>
    /\ UNCHANGED <<running, typeVars, handlerVars, codecVars, bfuVars, rdVars>>

----------------------------------------------------------------------------
\* Specifications.

Init ==
    \/ /\ running = "BoundedFuturesUnordered"
       /\ BFUInit
       /\ RSInit
       /\ RdInit /\ input = <<>> /\ max_length = 0
       /\ CodecIdle
       /\ TypeIdle
       /\ HandlerIdle
    \/ /\ running = "RequestStream"
       /\ BFUInit /\ max = 1
       /\ RSInit
       /\ RdInit /\ input = <<>> /\ max_length = 0
       /\ CodecIdle
       /\ TypeIdle
       /\ HandlerIdle
    \/ /\ running = "RequestReader"
       /\ BFUInit /\ max = 1
       /\ RSInit
       /\ RdInit
       /\ CodecIdle
       /\ TypeIdle
       /\ HandlerIdle
    \/ /\ running \in {"menu::MenuItemDecoder", "response::MenuItemDecoder"}
       /\ BFUInit /\ max = 1
       /\ RSInit
       /\ RdInit /\ input = <<>> /\ max_length = 0
       /\ CodecInit
       /\ TypeIdle
       /\ HandlerIdle
    \/ /\ running = "ItemType"
       /\ BFUInit /\ max = 1
       /\ RSInit
       /\ RdInit /\ input = <<>> /\ max_length = 0
       /\ CodecIdle
       /\ TypeInit
       /\ HandlerIdle
    \/ /\ running = "handle_request"
       /\ BFUInit /\ max = 1
       /\ RSInit
       /\ RdInit /\ input = <<>> /\ max_length = 0
       /\ CodecIdle
       /\ TypeIdle
       /\ HandlerInit
    \/ /\ running = "Response::write"
       /\ BFUInit /\ max = 1
       /\ RSInit
       /\ RdInit /\ input = <<>> /\ max_length = 0
       /\ CodecIdle
       /\ TypeIdle
       /\ WriterInit

Next ==
    \/ Push
    \/ Send
    \/ Wake
    \/ PollNext
    \/ Connect
    \/ ClientDone
    \/ ClientPartial
    \/ NextRequestPending
    \/ NextRequestAccept
    \/ NextRequestAcceptErr
    \/ Read
    \/ ReadEof
    \/ MenuEncode
    \/ ResponseEncode
    \/ MenuDecode
    \/ ResponseDecode
    \/ MenuReencode
    \/ ResponseReencode
    \/ FromU8
    \/ IntoU8
    \/ Fill
    \/ HandleRequest
    \/ Write
    \/ TaskRun
    \/ TaskStall

Spec == Init /\ [][Next]_vars

\* The server: the RequestStream and its clients.  The main loop calls
\* next_request again after every request it hands to a task, and select!
\* polls both of its branches.
ServerInit == Init /\ running = "RequestStream"

ServerNext ==
    \/ Connect
    \/ ClientDone
    \/ ClientPartial
    \/ NextRequestPending
    \/ NextRequestAccept
    \/ NextRequestAcceptErr

FairSpec ==
    /\ ServerInit
    /\ [][ServerNext]_vars
    /\ WF_vars(NextRequestPending)
    /\ WF_vars(NextRequestAccept)

\* The server and the tasks it spawns: the runtime runs every task that can
\* run.
TaskNext ==
    \/ ServerNext
    \/ TaskRun
    \/ TaskStall

TaskSpec ==
    /\ ServerInit
    /\ [][TaskNext]_vars
    /\ WF_vars(NextRequestPending)
    /\ WF_vars(NextRequestAccept)
    /\ WF_vars(TaskRun)

----------------------------------------------------------------------------
\* Properties of the admission queue.

pushed == nextSeq - 1

\* C1: a push at capacity cancels the pending future with the smallest
\* admission number, however the pending futures were polled or woken, so the
\* queue retains the most recently admitted ones: every cancelled future was
\* admitted before every future still pending.
C1_EvictsOldest ==
    \A c \in Range(closed) : \A f \in Range(pending.all) : c < f

\* C2: with capacity K and no future completing, K+1 pushes cancel exactly the
\* 1st admitted, two more pushes cancel the 2nd and the 3rd in that order, and
\* the 4th to (K+1)th are then not cancelled: each is pending or was returned.
C2_EvictionOrder ==
    /\ (sent = {} /\ pushed = max + 1) => closed = <<1>>
    /\ (sent = {} /\ pushed = max + 2) => closed = <<1, 2>>
    /\ (sent = {} /\ pushed = max + 3) => closed = <<1, 2, 3>>
    /\ (pushed = max + 3 /\ closed = <<1, 2, 3>>) =>
           \A f \in 4..(max + 1) : f \in Range(pending.all) \cup Range(out)

\* C3: the number of pending read operations never exceeds the capacity:
\* len() <= max for BoundedFuturesUnordered and
\* pending.len() <= MAX_QUEUED_REQUESTS for RequestStream.
C3_Bounded ==
    /\ len <= max
    /\ FU_len(rs_pending) <= MAX_QUEUED_REQUESTS

\* a push at capacity has happened, a future was returned, and the queue is full
C3_Witness ==
    /\ running = "BoundedFuturesUnordered"
    /\ len = max
    /\ closed # <<>>
    /\ out # <<>>

\* C4: a connection that arrives is eventually accepted by next_request, also
\* when MAX_QUEUED_REQUESTS admitted connections never complete their request.
C4_FloodAdmits ==
    \A c \in 1..MaxConn : (c \in Range(listener)) ~> (c \notin Range(listener))

----------------------------------------------------------------------------
\* Properties of the request decoder and reader.

decode_called == ret # NoResult

\* the bytes a selector must not hold
Forbidden == {CR, LF, TAB, NUL}

Clean(s) == \A i \in 1..Len(s) : s[i] \notin Forbidden

\* b holds a line whose selector is the first k bytes
LineAt(b, k) ==
    /\ Len(b) >= k + 2
    /\ Clean(SubSeq(b, 1, k))
    /\ b[k + 1] = CR
    /\ b[k + 2] = LF

\* C5 as stated: for every byte sequence s of length <= max_length without
\* CR, LF, TAB, NUL, decode of s CR LF t returns Request{s} and leaves t.
C5_AnyBytes ==
    \A k \in 0..max_length :
        (decode_called /\ LineAt(arg, k)) =>
            /\ ret = Ret("Request", SubSeq(arg, 1, k))
            /\ buf = SubSeq(arg, k + 3, Len(arg))

\* C5, amended: for every byte sequence s of length <= max_length (0 and
\* max_length included) that is valid UTF-8 and contains no CR, LF, TAB or NUL,
\* decode of a buffer holding s CR LF t returns Request{selector = s}, removes
\* exactly len(s)+2 bytes from the front and leaves t in the buffer.
C5_FullLine ==
    \A k \in 0..max_length :
        (decode_called /\ LineAt(arg, k) /\ Utf8(SubSeq(arg, 1, k))) =>
            /\ ret = Ret("Request", SubSeq(arg, 1, k))
            /\ buf = SubSeq(arg, k + 3, Len(arg))
            /\ Len(arg) - Len(buf) = k + 2

\* a selector of exactly max_length bytes was decoded and bytes follow it
C5_Witness ==
    /\ ret.kind = "Request"
    /\ max_length > 0
    /\ Len(ret.selector) = max_length
    /\ buf # <<>>
    /\ LineAt(arg, max_length)

\* C6: for every valid request line and every way of delivering its bytes,
\* each decode call on a proper prefix of the line returns Ok(None), never an
\* error, and the call that sees the CR LF returns what decoding the whole
\* line in one call returns.
C6_Fragments ==
    \A k \in 0..max_length :
        (decode_called /\ LineAt(input, k)) =>
            /\ Len(arg) < k + 2 => ret.kind = "None"
            /\ Len(arg) >= k + 2 =>
                   ret = decode(SubSeq(input, 1, k + 2), max_length, 0, FALSE).ret

\* the bytes of b before its first CR LF pair (all of b when it has none)
BeforeCRLF(b) ==
    LET at == {i \in 1..(Len(b) - 1) : b[i] = CR /\ b[i + 1] = LF}
    IN  IF at = {} THEN b ELSE SubSeq(b, 1, MinOf(at) - 1)

HasCRLF(b) == \E i \in 1..(Len(b) - 1) : b[i] = CR /\ b[i + 1] = LF

\* reading the request is over: read_request returned or the stream ended
read_over == returned(result) \/ eof

\* C7: when the bytes before the first CR LF (at most max_length of them)
\* include a CR not followed by LF, an LF, a TAB or a NUL, reading the request
\* ends in InvalidSelector and never in a Request.
C7_ForbiddenByte ==
    (Len(BeforeCRLF(input)) <= max_length /\ ~Clean(BeforeCRLF(input))) =>
        /\ result.kind \in {"NoResult", "InvalidSelector"}
        /\ read_over => result.kind = "InvalidSelector"

\* a line with a forbidden byte was delivered in more than one read and refused
C7_Witness ==
    /\ HasCRLF(input)
    /\ Len(BeforeCRLF(input)) <= max_length
    /\ ~Clean(BeforeCRLF(input))
    /\ result.kind = "InvalidSelector"
    /\ Len(arg) = Len(input)
    /\ Len(input) = MaxInput

\* C8: when more than max_length bytes are buffered and the scanned bytes (the
\* first max_length + 2) hold neither a CR LF nor a forbidden byte, decode
\* returns TooLong, not Ok(None) and not a Request.
C8_TooLong ==
    (/\ decode_called
     /\ Len(arg) > max_length
     /\ Clean(SubSeq(arg, 1, Min2(max_length + 2, Len(arg))))) =>
        ret.kind = "TooLong"

\* decode refused a buffer of max_length + 1 bytes
C8_Witness ==
    /\ ret.kind = "TooLong"
    /\ max_length > 0
    /\ Len(arg) = max_length + 1

\* C9: once decode has returned TooLong the decoder is finished, TooLong is
\* what read_request returns, and no later step changes that result, whatever
\* bytes the peer still sends.
C9_TooLongPermanent ==
    /\ [](ret.kind = "TooLong" => (finished /\ result = ret))
    /\ [][result.kind = "TooLong" => (result' = result /\ ret' = ret /\ finished')]_vars

\* TooLong was returned while bytes of the peer are still unread
C9_Witness ==
    /\ result.kind = "TooLong"
    /\ finished
    /\ pos < Len(input)

\* C10: when the stream ends and the bytes buffered (at most max_length, maybe
\* none) hold no CR LF, reading the request yields InvalidSelector: not
\* Ok(None), not a Request, and the reader always has a step to take until
\* it has returned.
C10_MissingTerminator ==
    (Len(input) <= max_length /\ ~HasCRLF(input)) =>
        /\ result.kind \in {"NoResult", "InvalidSelector"}
        /\ eof => (ret.kind = "InvalidSelector" /\ result.kind = "InvalidSelector")
        /\ (running = "RequestReader" /\ ~read_over) => ENABLED (Read \/ ReadEof)

\* the stream ended on an unterminated selector without forbidden bytes
C10_Witness ==
    /\ eof
    /\ input # <<>>
    /\ Clean(input)
    /\ result.kind = "InvalidSelector"

\* the bytes of the peer that no decode call has consumed
unparsed == buf \o SubSeq(input, pos + 1, Len(input))

\* C11: a connection yields at most one Request: once decode has returned a
\* Request the decoder is finished, that Request is what read_request returns,
\* no later step reads or parses the bytes that follow, and a further decode
\* call on them, well-formed lines included, returns no second Request.
C11_OneRequest ==
    /\ [](ret.kind = "Request" =>
            /\ finished
            /\ result = ret
            /\ decode(unparsed, max_length, next_index, finished).ret.kind # "Request")
    /\ [][result.kind = "Request" => UNCHANGED <<result, ret, buf, pos, finished>>]_vars

\* a Request was returned and the bytes after it are another well-formed line
C11_Witness ==
    /\ result.kind = "Request"
    /\ HasCRLF(unparsed)
    /\ Clean(BeforeCRLF(unparsed))

\* the connections whose pair next_request has returned
returned_tx == {delivered[i].tx : i \in 1..Len(delivered)}

\* C12: every admitted connection is either still pending or has had its pair
\* returned, never dropped; a returned pair belongs to an admitted connection
\* whose read completed and carries that connection's own result, Ok or Err,
\* with its write half; no connection is returned twice; and an admitted
\* connection whose read has completed is eventually returned.
C12_ExactlyOnce ==
    /\ [](/\ \A i, j \in 1..Len(delivered) :
                delivered[i].tx = delivered[j].tx => i = j
          /\ \A i \in 1..Len(delivered) :
                /\ delivered[i].tx \in admitted \cap complete
                /\ delivered[i].req_result = "Err" <=> delivered[i].tx \in failed
                /\ delivered[i].req_result \in {"Ok", "Err"}
          /\ admitted = Range(rs_pending.all) \cup returned_tx
          /\ Range(rs_pending.all) \cap returned_tx = {})
    /\ \A c \in 1..MaxConn :
          (c \in admitted /\ c \in complete) ~> (c \in returned_tx)

\* a failed request and a decoded one were both returned, the failed one first
C12_Witness ==
    /\ Len(delivered) >= 2
    /\ delivered[1].req_result = "Err"
    /\ delivered[2].req_result = "Ok"
    /\ delivered[1].tx > delivered[2].tx

\* the pending futures whose value has been sent
completed == sent \cap Range(pending.all)

\* the place of a completed future in the order of completion
completed_at(f) == CHOOSE i \in 1..Len(completion) : completion[i] = f

\* a poll made while some pending future has completed returns one of them,
\* whatever else is pending, and removes nothing else from the queue; a poll
\* made while none has completed returns nothing; no poll cancels a future
PollHandsBack ==
    PollNext =>
        /\ completed # {} =>
              \E f \in completed :
                  /\ out' = Append(out, f)
                  /\ Range(pending'.all) = Range(pending.all) \ {f}
        /\ completed = {} =>
              /\ out' = out
              /\ Range(pending'.all) = Range(pending.all)
        /\ closed' = closed

\* once nothing is pending a poll reports None
PollEmptyNone ==
    (pushed > 0 /\ pending.all = <<>>) => FU_poll_next(pending, sent).res = PollNone

\* C13 as claimed: the futures handed back come in the order in which they
\* completed, each by a poll made after its completion even while
\* earlier-admitted futures are pending, cancelling nothing, and the queue
\* reports None once every pending future has been returned.
C13_CompletionOrder ==
    /\ [](\A i, j \in 1..Len(out) :
              i < j => completed_at(out[i]) < completed_at(out[j]))
    /\ [][PollHandsBack]_vars
    /\ []PollEmptyNone

\* C13, amended: completed futures are handed back whatever their admission
\* order, in the order in which their wake-ups were queued: a poll made while
\* a pending future has completed returns the completed future that was
\* queued first, even while earlier-admitted futures are pending, cancelling
\* nothing, and the queue reports None once every pending future has been
\* returned.
C13_ReadyOrder ==
    /\ [][PollHandsBack]_vars
    /\ [][(PollNext /\ completed # {}) =>
            \E k \in 1..Len(pending.rq) :
                /\ pending.rq[k] \in sent
                /\ \A h \in 1..(k - 1) : pending.rq[h] \notin sent
                /\ out' = Append(out, pending.rq[k])]_vars
    /\ []PollEmptyNone

\* a future was handed back while one admitted before it is still pending
\* and has not completed
C13_Witness ==
    /\ out # <<>>
    /\ \E g \in Range(pending.all) \ sent : g < out[Len(out)]

----------------------------------------------------------------------------
\* Properties of the menu codec.

codec == running \in {"menu::MenuItemDecoder", "response::MenuItemDecoder"}

\* the line without its CR LF, and the number of TABs of a byte string
body(w) == SubSeq(w, 1, Len(w) - 2)
tabs(s) == Cardinality({i \in 1..Len(s) : s[i] = TAB})

\* a line of n TAB-separated fields after a type byte that is a printable
\* character (not CR, LF, TAB, NUL, another control character or a space), the
\* fields without CR and LF, ended by CR LF
shape(w, n) ==
    /\ Len(w) >= 3
    /\ SubSeq(w, Len(w) - 1, Len(w)) = <<CR, LF>>
    /\ w[1] \notin Forbidden
    /\ w[1] \notin 0..32
    /\ \A i \in 2..(Len(w) - 2) : w[i] \notin {CR, LF}
    /\ tabs(body(w)) = n - 1

\* a well-formed menu line: the empty line or a line of one to four fields
well_formed(w) == w = <<CR, LF>> \/ \E n \in 1..4 : shape(w, n)

\* the TAB-separated fields of a byte string
RECURSIVE split(_)
split(s) ==
    IF tabs(s) = 0
    THEN <<s>>
    ELSE LET t == CHOOSE i \in 1..Len(s) :
                      s[i] = TAB /\ \A j \in 1..(i - 1) : s[j] # TAB
         IN  <<SubSeq(s, 1, t - 1)>> \o split(SubSeq(s, t + 1, Len(s)))

\* the running decoder, new, given the whole line in one call
whole(w) ==
    IF running = "menu::MenuItemDecoder"
    THEN menu_decode(w)
    ELSE LET d == response_decode(w, response_new.partial, response_new.next_index)
         IN  [ret |-> d.ret, buf |-> d.buf]

\* a decode call that is given the whole line at once
whole_line == codec /\ wire # <<>> /\ fed = 0 /\ fed' = Len(wire)

\* C14: whatever fragments a well-formed menu line arrives in, no decode call
\* panics, a call that returns an item or an error returns what a single call
\* on the whole line returns, and once the whole line was given the buffer is
\* left as that single call leaves it.
C14_Fragments ==
    (codec /\ menu_item = None /\ well_formed(wire)) =>
        /\ mret.kind # "Panic"
        /\ mret.kind \notin {"NoCall", "None"} => mret = whole(wire).ret
        /\ fed = Len(wire) => mbuf = whole(wire).buf

\* the fields after the type byte, and the item a line of up to four fields
\* stands for: fields left out are "" (selector) and None (host, port)
fields_of(w) == split(Tail(body(w)))
item_of(w) ==
    LET f == fields_of(w)
    IN  MenuItem(from_u8(w[1]), f[1],
                 IF Len(f) >= 2 THEN f[2] ELSE <<>>,
                 IF Len(f) >= 3 THEN Some(f[3]) ELSE None,
                 IF Len(f) >= 4 THEN Some(f[4]) ELSE None)

\* C15: a line that ends after the text, after the selector or after the host
\* (and not in a TAB, which would leave its last field empty), given whole to
\* a new decoder, decodes to the item of its fields with the fields left out
\* empty or absent, and the empty line decodes to an Info item with empty text
\* and selector and no host and port.
C15_ShortLines ==
    [][(whole_line /\ menu_item = None) =>
          /\ wire = <<CR, LF>> => mret' = Item(info(<<>>))
          /\ ((\E n \in 1..3 : shape(wire, n)) /\ wire[Len(wire) - 2] # TAB) =>
                mret' = Item(item_of(wire))]_vars

\* C16: a line with a fifth field after the port, a trailing TAB after the
\* port included, never decodes to an item, and given whole to a new decoder
\* it is a decode error.
C16_Garbage ==
    /\ []((codec /\ menu_item = None /\ shape(wire, 5)) => mret.kind # "Item")
    /\ [][(whole_line /\ menu_item = None /\ shape(wire, 5)) =>
            mret'.kind = "Message"]_vars

\* a line whose first byte is TAB, NUL, LF, or a CR that is not the CR of an
\* empty line
bad_type(w) ==
    /\ w # <<>>
    /\ w[1] \in Forbidden
    /\ ~(Len(w) >= 2 /\ w[1] = CR /\ w[2] = LF)

\* C17: a line whose first byte is CR, LF, TAB or NUL never decodes to an item
\* that has this byte as its type, and given whole to a new decoder, either
\* decoder, it is a decode error.
C17_BadType ==
    /\ []((codec /\ menu_item = None /\ bad_type(wire)) =>
            ~(mret.kind = "Item" /\ into_u8(mret.item.typ) = wire[1]))
    /\ [][(whole_line /\ menu_item = None /\ bad_type(wire)) =>
            mret'.kind = "Message"]_vars

\* C18: a line of four fields, empty ones included, given whole to a new
\* decoder decodes to an item, and that item encodes to the bytes of the line.
C18_LineRoundTrip ==
    /\ [][(whole_line /\ menu_item = None /\ shape(wire, 4)) =>
            mret'.kind = "Item"]_vars
    /\ []((codec /\ menu_item = None /\ shape(wire, 4) /\ line_out # <<>>) =>
            line_out = wire)

\* C19: an item whose host and port are both present, empty strings included,
\* is encoded, and a new decoder given the encoded bytes returns an item with
\* the same type, text, selector, host and port and consumes all the bytes.
C19_ItemRoundTrip ==
    [][(whole_line /\ menu_item.some /\ menu_item.v.host.some /\ menu_item.v.port.some) =>
          /\ mret' = Item(menu_item.v)
          /\ mbuf' = <<>>]_vars

\* C20: the encoder writes the type byte, the text, TAB, the selector, TAB, the
\* host or error.host, TAB, the port or 1, CR LF: three TABs when no field
\* holds one.
C20_FourFields ==
    [][(MenuEncode \/ ResponseEncode) =>
          LET i == menu_item.v
              host == IF i.host = None THEN <<101, 114, 114, 111, 114, 46, 104, 111, 115, 116>>
                      ELSE i.host.v
              port == IF i.port = None THEN <<49>> ELSE i.port.v
          IN  /\ wire' = <<into_u8(i.typ)>> \o i.text \o <<TAB>> \o i.selector
                             \o <<TAB>> \o host \o <<TAB>> \o port \o <<CR, LF>>
              /\ tabs(wire') = 3]_vars

\* an item without host and port was encoded, by either encoder
C20_Witness ==
    /\ codec
    /\ menu_item.some
    /\ menu_item.v.host = None
    /\ menu_item.v.port = None
    /\ menu_item.v.text # <<>>
    /\ wire # <<>>

----------------------------------------------------------------------------
\* Properties of the item-type mapping.

\* the bytes of the 18 tags that carry no byte: '0'..'9', '+', 'T', 'g',
\* 'I', 'd', 'h', 'i', 's'
NamedBytes == (48..57) \cup {43, 84, 103, 73, 100, 104, 105, 115}
NamedTags == {ItemType(ItemTypes[k][1]) : k \in 1..Len(ItemTypes)}
is_byte(x) == DOMAIN x = {"byte"}
is_typ(x) == DOMAIN x = {"typ"}

\* C21: the item-type mapping is total and round-trips: every byte of
\* 0..255 converts to an ItemType that converts back to that byte; each of
\* the 18 named tags converts to a byte of its own that converts back to
\* the tag; an unnamed byte of '0'..'Z' converts to Reserved of that byte,
\* and every other unnamed byte to Other of that byte.
C21_TypeRoundTrip ==
    running = "ItemType" =>
        /\ (is_byte(it_in) /\ it_mid # Unset) =>
              LET b == it_in.byte
                  t == it_mid.typ
              IN  /\ is_typ(it_mid)
                  /\ b \in NamedBytes => t \in NamedTags
                  /\ (b \notin NamedBytes /\ b \in 48..90) =>
                        t = [variant |-> "Reserved", c |-> b]
                  /\ (b \notin NamedBytes /\ b \notin 48..90) =>
                        t = [variant |-> "Other", c |-> b]
        /\ (is_typ(it_in) /\ it_mid # Unset) =>
              /\ is_byte(it_mid)
              /\ it_mid.byte \in NamedBytes
        /\ it_out # Unset => it_out = it_in
        /\ Cardinality(NamedTags) = 18
        /\ Cardinality(NamedBytes) = 18
        /\ \A t, u \in NamedTags :
              (is_typ(it_in) /\ it_in.typ = t /\ it_mid # Unset /\ t # u) =>
                  it_mid.byte # ItemTypes[CHOOSE k \in 1..Len(ItemTypes) :
                                    ItemTypes[k][1] = u.variant][2]

\* the unnamed byte 'A' has gone to Reserved and come back
C21_Witness ==
    /\ running = "ItemType"
    /\ it_in = [byte |-> 65]
    /\ it_mid = [typ |-> [variant |-> "Reserved", c |-> 65]]
    /\ it_out = [byte |-> 65]

----------------------------------------------------------------------------
\* Properties of push.

\* C29: a push made when len() = max cancels exactly one pending future, and
\* a push made when len() < max cancels none; either way the pushed future is
\* pending afterwards and the futures that stay are linked in the same
\* relative order as before; the assert_eq! after the rebuild holds for
\* every max >= 1.
C29_PushEvictsOne ==
    /\ [](running = "BoundedFuturesUnordered" =>
            push(pending, max, nextSeq).asserted)
    /\ [][Push =>
           LET before == pending.all
               after  == pending'.all
               stay   == SelectSeq(before, LAMBDA f : f \in Range(after))
           IN  /\ max >= 1
               /\ len = max =>
                     /\ Len(closed') = Len(closed) + 1
                     /\ closed'[Len(closed')] \in Range(before)
                     /\ Len(stay) = max - 1
                     /\ Len(after) = max
               /\ len < max =>
                     /\ closed' = closed
                     /\ stay = before
                     /\ Len(after) = len + 1
               /\ nextSeq \in Range(after)
               /\ SelectSeq(after, LAMBDA f : f \in Range(before)) = stay
               /\ Range(closed') \cap Range(after) = {}]_vars

\* a push at capacity 3 has cancelled one future and kept two
C29_Witness ==
    /\ running = "BoundedFuturesUnordered"
    /\ max = 3
    /\ Len(closed) = 1
    /\ Len(pending.all) = 3
    /\ nextSeq = 5

----------------------------------------------------------------------------
\* Properties of a menu file of several lines.

\* the lines of a byte string, each with its CR LF
RECURSIVE lines_of(_)
lines_of(w) ==
    IF \E i \in 1..(Len(w) - 1) : w[i] = CR /\ w[i + 1] = LF
    THEN LET e == CHOOSE i \in 1..(Len(w) - 1) :
                      /\ w[i] = CR /\ w[i + 1] = LF
                      /\ \A j \in 1..(i - 1) : ~(w[j] = CR /\ w[j + 1] = LF)
         IN  <<SubSeq(w, 1, e + 1)>> \o lines_of(SubSeq(w, e + 2, Len(w)))
    ELSE IF w = <<>> THEN <<>> ELSE <<w>>

\* one or more well-formed lines, none with an empty last field
all_well(w) ==
    /\ w # <<>>
    /\ \A l \in Range(lines_of(w)) :
          /\ well_formed(l)
          /\ l # <<CR, LF>> => l[Len(l) - 2] # TAB

\* the item a well-formed line stands for
line_item(l) ==
    IF l = <<CR, LF>>
    THEN [typ |-> [variant |-> "Info"], text |-> <<>>, selector |-> <<>>,
          host |-> None, port |-> None]
    ELSE item_of(l)

\* the number of bytes of the first k lines
RECURSIVE bytes_of(_, _)
bytes_of(ls, k) == IF k = 0 THEN 0 ELSE Len(ls[k]) + bytes_of(ls, k - 1)

\* C30: a decode call on a buffer that holds whole well-formed lines and
\* nothing else, whatever their shapes, returns the item of the first of
\* them, consumes the bytes of that line and no more, and leaves the decoder
\* as new (no partial item, scan index 0); so n lines decode to their n
\* items in order over n calls, and no call panics, fails or asks for more.
C30_LineByLine ==
    [][((MenuDecode \/ ResponseDecode) /\ menu_item = None /\ all_well(wire)
          /\ fed \in {0, Len(wire)} /\ fed' = Len(wire)
          /\ mret.kind \in {"NoCall", "Item"}
          /\ Len(decoded) < Len(lines_of(wire))) =>
          LET ls == lines_of(wire)
              k  == Len(decoded) + 1
          IN  /\ mret' = Item(line_item(ls[k]))
              /\ decoded' = [i \in 1..k |-> line_item(ls[i])]
              /\ mbuf' = SubSeq(wire, bytes_of(ls, k) + 1, Len(wire))
              /\ partial' = None
              /\ mi_next_index' = 0]_vars

----------------------------------------------------------------------------
\* Properties of the handler's map step.

\* the item the map step was given
unfilled == IF mret.kind = "Item" THEN mret.item ELSE menu_item.v

\* C28: after the map step an item that is neither Info nor Error has a host
\* and a port: the configured hostname and port when the line gave neither,
\* the configured hostname and the port of the line when it gave only a
\* port; a host or port the line gave is kept; nothing else of the item
\* changes, and an Info or Error item does not change at all.
C28_Filled ==
    (running = "menu::MenuItemDecoder" /\ filled # None) =>
        LET i == unfilled
            o == filled.v
        IN  /\ o.typ = i.typ /\ o.text = i.text /\ o.selector = i.selector
            /\ i.typ.variant \in {"Info", "Error"} => o = i
            /\ i.typ.variant \notin {"Info", "Error"} =>
                  /\ o.host # None /\ o.port # None
                  /\ (i.host = None /\ i.port = None) =>
                        o.host.v = <<104>> /\ o.port.v = <<49, 55>>
                  /\ (i.host = None /\ i.port # None) =>
                        o.host.v = <<104>> /\ o.port = i.port
                  /\ i.host # None => o.host = i.host
                  /\ i.port # None => o.port = i.port

\* a decoded Directory line without host and port was filled in
C28_Witness ==
    /\ running = "menu::MenuItemDecoder"
    /\ mret.kind = "Item"
    /\ mret.item.typ = [variant |-> "Directory"]
    /\ mret.item.host = None
    /\ filled # None
    /\ filled.v.host = [some |-> TRUE, v |-> <<104>>]
    /\ filled.v.port = [some |-> TRUE, v |-> <<49, 55>>]

----------------------------------------------------------------------------
\* Properties of handle_request and Response::write.

\* p occurs in s
has(s, p) == \E i \in 1..(Len(s) + 1) : \E j \in (i - 1)..Len(s) : SubSeq(s, i, j) = p

\* a request was decoded and handled
handled == running = "handle_request" /\ response # None

\* C25: a selector that starts with '/' and is "/.." or contains "/../" or
\* "//" is answered with the error "directory traversal denied" and
\* fs::lookup is not called; for the empty selector fs::lookup is called
\* with the document root.
C25_TraversalDenied ==
    (handled /\ req.v.ok) =>
        LET s == req.v.selector
        IN  /\ (/\ s # <<>> /\ s[1] = 47
                /\ \/ s = <<47, 46, 46>>
                   \/ has(s, <<47, 46, 46, 47>>)
                   \/ has(s, <<47, 47>>)) =>
                  /\ response.v =
                       [variant |-> "Error",
                        \* "directory traversal denied"
                        msg |-> <<100, 105, 114, 101, 99, 116, 111, 114, 121, 32,
                                  116, 114, 97, 118, 101, 114, 115, 97, 108, 32,
                                  100, 101, 110, 105, 101, 100>>]
                  /\ looked_up = <<>>
            /\ s = <<>> =>
                  /\ Len(looked_up) = 1
                  /\ looked_up[1].path = [under_root |-> TRUE, rel |-> <<>>]

\* the selector "/../a" was denied and the error written
C25_Witness ==
    /\ handled
    /\ req.v.ok
    /\ req.v.selector = <<47, 46, 46, 47, 97>>
    /\ response.v.variant = "Error"
    /\ looked_up = <<>>
    /\ write_ret = "Ok"

\* the line of an item: type byte, text, TAB, selector, TAB, host or
\* "error.host", TAB, port or "1", CR LF
line_of(i) ==
    <<into_u8(i.typ)>> \o i.text \o <<TAB>> \o i.selector \o <<TAB>>
        \o (IF i.host = None
            THEN <<101, 114, 114, 111, 114, 46, 104, 111, 115, 116>>
            ELSE i.host.v)
        \o <<TAB>> \o (IF i.port = None THEN <<49>> ELSE i.port.v) \o <<CR, LF>>

RECURSIVE lines_from(_)
lines_from(items) ==
    IF items = <<>> THEN <<>> ELSE line_of(Head(items)) \o lines_from(Tail(items))

\* C26: a Menu response is written as the lines of its items in order, then
\* the terminator "." CR LF, once; an empty menu as the terminator alone;
\* when the writer fails part-way, write returns the failure and what was
\* written is a proper prefix of those bytes.
C26_MenuBytes ==
    (response # None /\ response.v.variant = "Menu" /\ write_ret # "NoCall") =>
        LET all == lines_from(response.v.items) \o <<46, CR, LF>>
        IN  /\ write_ret = "Ok" => sink = all
            /\ (write_ret = "Ok" /\ response.v.items = <<>>) => sink = <<46, CR, LF>>
            /\ write_ret = "Err" =>
                  /\ Len(sink) < Len(all)
                  /\ sink = SubSeq(all, 1, Len(sink))
            /\ write_ret \in {"Ok", "Err"}

\* a menu of two items was written whole
C26_Witness ==
    /\ running = "Response::write"
    /\ response # None
    /\ response.v.variant = "Menu"
    /\ Len(response.v.items) = 2
    /\ write_ret = "Ok"
    /\ Len(sink) > 6

\* C27: an Error response with message text is written as '3', the text,
\* TAB, "error", TAB, "error.host", TAB, "1", CR LF, "." CR LF: the bytes of
\* a Menu response with the one item {Error, text, selector "error", no
\* host, no port}.
C27_ErrorBytes ==
    (response # None /\ response.v.variant = "Error" /\ write_ret = "Ok") =>
        LET text == response.v.msg
            item == [typ |-> [variant |-> "Error"], text |-> text,
                     selector |-> <<101, 114, 114, 111, 114>>,
                     host |-> None, port |-> None]
        IN  /\ sink = <<51>> \o text \o <<TAB, 101, 114, 114, 111, 114, TAB>>
                          \o <<101, 114, 114, 111, 114, 46, 104, 111, 115, 116>>
                          \o <<TAB, 49, CR, LF, 46, CR, LF>>
            /\ sink = line_of(item) \o <<46, CR, LF>>
            /\ sink = write([variant |-> "Menu", items |-> <<item>>])

\* the error "not found" was written for the selector "a"
C27_Witness ==
    /\ handled
    /\ req.v.ok
    /\ req.v.selector = <<97>>
    /\ response.v.variant = "Error"
    /\ write_ret = "Ok"
    /\ Len(sink) = 34

\* the I/O errors met on the way to the response: by read_request, by
\* fs::lookup and by fs::read_dir
io_errors ==
    (IF ~req.v.ok /\ req.v.err.kind = "Io" THEN {req.v.err.io} ELSE {})
        \cup {looked_up[k].ret.e :
                k \in {n \in 1..Len(looked_up) :
                         \/ looked_up[n].ret.kind = "Err"
                         \/ /\ looked_up[n].ret.kind = "Directory"
                            /\ looked_up[n].ret.read_dir = "Err"}}

\* C24: when an I/O error was met while the request was read, the file
\* looked up or the directory read, the response is an Error whose message
\* does not contain the text of the I/O error, and neither do the bytes
\* written.
C24_NoErrorText ==
    (handled /\ io_errors # {}) =>
        /\ response.v.variant = "Error"
        /\ \A e \in io_errors :
              /\ ~has(response.v.msg, e.detail)
              /\ ~has(sink, e.detail)

----------------------------------------------------------------------------
\* Properties of the main loop and its tasks.

\* C22: for every pair next_request returns, one response is built and
\* written to the tx of the pair: the response of handle_request when the
\* request decoded, an Error response when it did not; no tx is written
\* twice, nothing is written to a tx that was not returned, and unless its
\* task stops in an await for good, every returned pair gets its response.
C22_OneResponse ==
    /\ [](\A c \in 1..MaxConn :
            /\ Len(writes[c]) <= 1
            /\ writes[c] # <<>> =>
                  \E i \in 1..Len(delivered) :
                      /\ delivered[i].tx = c
                      /\ writes[c][1].of = delivered[i].req_result
                      /\ delivered[i].req_result = "Err" =>
                            writes[c][1].response = "Error")
    /\ \A c \in 1..MaxConn :
          (c \in returned_tx) ~> (Len(writes[c]) = 1 \/ tasks[c] = "stalled")

\* the connection attempt was lost to an accept error
lost(c) == c < nextConn /\ c \notin Range(listener) /\ c \notin admitted

\* C23: whatever tasks stop for good in handle_request or in the write,
\* every connection that sends a complete request is accepted, has its
\* request returned by next_request and is answered by its own task (unless
\* that task is one that stops or panics).
C23_NoBlocking ==
    \A c \in 1..MaxConn :
        (c \in complete \ failed /\ ~lost(c)) ~>
            (tasks[c] \in {"done", "stalled", "aborted"} \/ lost(c))

----------------------------------------------------------------------------
\* Frame effects of RequestDecoder::decode.

\* the bytes of b after its first CR LF pair
AfterCRLF(b) == SubSeq(b, Len(BeforeCRLF(b)) + 3, Len(b))

\* C31 as stated: a decode call that returns Ok(None) or InvalidSelector
\* leaves the buffer and the decoder as they were (finished false, next_index
\* as constructed); only a call that returns a Request consumes bytes; only
\* a Request or TooLong marks the decoder finished.
C31_FrameEffect ==
    decode_called =>
        /\ ret.kind \in {"None", "InvalidSelector"} =>
               (buf = arg /\ ~finished /\ next_index = 0)
        /\ buf # arg => ret.kind = "Request"
        /\ finished => ret.kind \in {"Request", "TooLong"}

\* C31, amended: a decode call that returns Ok(None) or InvalidSelector
\* leaves the buffer and the decoder as they were; a call that returns TooLong
\* leaves the buffer as it was and marks the decoder finished; a call that
\* finds the CR LF removes the line and its terminator from the front of the
\* buffer, whether it returns the Request (decoder finished) or the Utf8
\* error (decoder not finished); no other call consumes bytes, and only a
\* Request or TooLong marks the decoder finished.
C31_FrameEffectUtf8 ==
    decode_called =>
        /\ ret.kind \in {"None", "InvalidSelector"} =>
               (buf = arg /\ ~finished /\ next_index = 0)
        /\ ret.kind = "TooLong" => (buf = arg /\ finished /\ next_index = 0)
        /\ ret.kind \in {"Request", "Utf8"} =>
               /\ HasCRLF(arg)
               /\ buf = AfterCRLF(arg)
               /\ finished <=> ret.kind = "Request"
               /\ next_index = 0
        /\ buf # arg => ret.kind \in {"Request", "Utf8"}
        /\ finished => ret.kind \in {"Request", "TooLong"}

\* decode refused a line that is not UTF-8, took it off the buffer and left
\* the bytes that follow it
C31_Witness ==
    /\ ret.kind = "Utf8"
    /\ ~finished
    /\ buf # <<>>
    /\ buf # arg
    /\ buf = AfterCRLF(arg)

----------------------------------------------------------------------------
\* Where the paths handle_request looks up lie.

\* the components of a relative path: the bytes between its '/'
RECURSIVE components(_)
components(s) ==
    LET at == {i \in 1..Len(s) : s[i] = 47}
    IN  IF at = {} THEN <<s>>
        ELSE <<SubSeq(s, 1, MinOf(at) - 1)>>
                 \o components(SubSeq(s, MinOf(at) + 1, Len(s)))

\* resolving the components from depth levels below the root, a ".." is met
\* at the root itself: the path leaves the root
RECURSIVE climbs(_, _)
climbs(cs, depth) ==
    IF cs = <<>> THEN FALSE
    \* "", "."
    ELSE IF Head(cs) \in {<<>>, <<46>>} THEN climbs(Tail(cs), depth)
    \* ".."
    ELSE IF Head(cs) = <<46, 46>> THEN depth = 0 \/ climbs(Tail(cs), depth - 1)
    ELSE climbs(Tail(cs), depth + 1)

\* C32: for every selector that starts with '/' and passes the traversal
\* check, the remainder given to join does not begin with '/', and the path
\* looked up, the document root joined with that remainder, is after
\* resolving its "." and ".." components the document root or a descendant
\* of it.
C32_InsideRoot ==
    (/\ handled
     /\ req.v.ok
     /\ req.v.selector # <<>>
     /\ req.v.selector[1] = 47) =>
        \A i \in 1..Len(looked_up) :
            LET path == looked_up[i].path
                rest == Tail(req.v.selector)
            IN  /\ ~(rest # <<>> /\ rest[1] = 47)
                /\ path.under_root
                /\ path.rel = rest
                /\ ~climbs(components(path.rel), 0)

----------------------------------------------------------------------------
\* handle_request returns.

\* s starts with "GET " and ends with " HTTP/1.1" or " HTTP/1.0"
get_form(s) ==
    /\ Len(s) >= 4
    /\ SubSeq(s, 1, 4) = <<71, 69, 84, 32>>
    /\ Len(s) >= 9
    /\ SubSeq(s, Len(s) - 8, Len(s)) \in
           {<<32, 72, 84, 84, 80, 47, 49, 46, 49>>, <<32, 72, 84, 84, 80, 47, 49, 46, 48>>}

\* C33: handle_request returns a Response for every decoded selector and
\* does not panic: for a selector that starts with "GET " and ends with
\* " HTTP/1.1" or " HTTP/1.0" the bounds of the slice 4 .. len - 9 are in
\* order, and no task of the main loop is aborted before it writes.
C33_NoPanic ==
    /\ (handled /\ req.v.ok) =>
           /\ get_form(req.v.selector) => 4 <= Len(req.v.selector) - 9
           /\ response.v.variant \in {"Menu", "File", "Error", "Raw"}
    /\ \A c \in 1..MaxConn : tasks[c] # "aborted"

=============================================================================
